---- MODULE Spec2Model ----
(***************************************************************************)
(* Model of the DEXA -> avatar pipeline of backend/app:                    *)
(*   dexa_parser.py       parse_pdf_bytes, _extract_first,                 *)
(*                        _extract_region_metrics                          *)
(*   models.py            the pydantic records and their field ranges      *)
(*   avatar_generator.py  map_metrics_to_parameters,                       *)
(*                        process_dexa_to_avatar                           *)
(*   morphing.py          interpolate_parameters, handle_morph_request     *)
(*   personalization.py   refine_parameters_with_photo                     *)
(*   main.py              generate_avatar, morph_avatar, batch_process     *)
(*                                                                         *)
(* Real numbers are exact rationals <<n, d>> in lowest terms with d > 0.   *)
(* The rounding of IEEE arithmetic (the float32 storage of the betas) is   *)
(* not represented: every statement below is about the exact values.       *)
(***************************************************************************)
EXTENDS Integers, Sequences, FiniteSets, TLC

\* Python None for an Optional[float] or an unset result: the empty tuple,
\* which no rational <<n, d>> equals
None == << >>
\* an Optional[str] that is set: a one-element tuple
Str(s) == <<s>>

(***************************************************************************)
(* Exact rational arithmetic.                                              *)
(***************************************************************************)
Abs(x) == IF x < 0 THEN -x ELSE x

RECURSIVE GCD(_, _)
GCD(a, b) == IF b = 0 THEN a ELSE GCD(b, a % b)

Rat(n, d) ==
    LET s == IF d < 0 THEN -1 ELSE 1
        g == GCD(Abs(n), Abs(d))
    IN  <<(s * n) \div g, (s * d) \div g>>

Int2Rat(i) == <<i, 1>>
Zero == <<0, 1>>
One == <<1, 1>>

RAdd(x, y) == Rat(x[1] * y[2] + y[1] * x[2], x[2] * y[2])
RSub(x, y) == Rat(x[1] * y[2] - y[1] * x[2], x[2] * y[2])
RMul(x, y) == Rat(x[1] * y[1], x[2] * y[2])
RDiv(x, y) == Rat(x[1] * y[2], x[2] * y[1])
RLe(x, y) == x[1] * y[2] <= y[1] * x[2]
RLt(x, y) == x[1] * y[2] < y[1] * x[2]

\* numpy.clip(x, lo, hi) == minimum(maximum(x, lo), hi)
ClipNoUpper(x, lo, hi) == IF RLt(x, lo) THEN lo ELSE x
Clip(x, lo, hi) == IF RLt(x, lo) THEN lo ELSE IF RLt(hi, x) THEN hi ELSE x

\* Python truthiness of an Optional[float]: None and 0.0 are falsy
Truthy(v) == v # None /\ v # Zero

(***************************************************************************)
(* Python dicts are functions on a finite set of keys.                     *)
(***************************************************************************)
EmptyDict == << >>
\* an Optional[Dict] argument: None, or a reference to a dict object
PyNone == [is_none |-> TRUE, items |-> EmptyDict]
PyDict(d) == [is_none |-> FALSE, items |-> d]
DictSet(d, k, v) == [x \in (DOMAIN d) \cup {k} |-> IF x = k THEN v ELSE d[x]]
DictGet(d, k, default) == IF k \in DOMAIN d THEN d[k] ELSE default

(***************************************************************************)
(* models.py: field ranges of the pydantic records.                        *)
(***************************************************************************)
InRange(v, lo, hi) == v = None \/ (RLe(Int2Rat(lo), v) /\ RLe(v, Int2Rat(hi)))
AtLeast(v, lo) == v = None \/ RLe(Int2Rat(lo), v)

BodyFields == {"height_cm", "weight_kg", "total_fat_percent", "total_lean_mass_kg",
               "total_bone_mass_kg", "android_fat_percent", "gynoid_fat_percent"}

RegionFields == {"fat_mass_kg", "lean_mass_kg", "bone_mass_kg", "fat_percent"}

\* DexaBodyMetrics(**kw) validates; TRUE iff no ValidationError
DexaBodyMetrics(kw) ==
    /\ InRange(kw.height_cm, 50, 250)
    /\ InRange(kw.weight_kg, 20, 250)
    /\ InRange(kw.total_fat_percent, 0, 80)
    /\ InRange(kw.total_lean_mass_kg, 0, 200)
    /\ InRange(kw.total_bone_mass_kg, 0, 50)
    /\ InRange(kw.android_fat_percent, 0, 100)
    /\ InRange(kw.gynoid_fat_percent, 0, 100)

\* DexaRegionMetrics(**kw) validates; TRUE iff no ValidationError
DexaRegionMetrics(kw) ==
    /\ AtLeast(kw.fat_mass_kg, 0)
    /\ AtLeast(kw.lean_mass_kg, 0)
    /\ AtLeast(kw.bone_mass_kg, 0)
    /\ InRange(kw.fat_percent, 0, 100)

\* DexaScanData(body_metrics=..., regions=...) validates its parts
DexaScanData(body, regions) ==
    /\ DexaBodyMetrics(body)
    /\ \A k \in DOMAIN regions : DexaRegionMetrics(regions[k])

ScanRecord(patient_id, scan_date, device_model, body, regions) ==
    [patient_id |-> patient_id, scan_date |-> scan_date, device_model |-> device_model,
     body_metrics |-> body, regions |-> regions]

AvatarParameters(betas, scales, notes) == [betas |-> betas, scales |-> scales, notes |-> notes]

(***************************************************************************)
(* State.                                                                  *)
(***************************************************************************)
VARIABLES
    body_kwargs,             \* keyword arguments of DexaBodyMetrics(...)
    regions_arg,             \* regions argument of DexaScanData(...)
    dexa_data,               \* the DexaScanData record, None before construction
    body_scale_adjustments,  \* the caller's dict object (or None) passed as 2nd argument
    supplied,                \* the value of that argument at the time of the call
    params,                  \* AvatarParameters returned by map_metrics_to_parameters
    synth_pc,                \* "new", "built", "invalid", "mapped"
    request,                 \* the MorphRequest and the generate_meshes flag
    sequence,                \* list returned by interpolate_parameters, None if none
    files,                   \* file system: path -> content
    next_id,                 \* number of avatar ids drawn from uuid4 so far
    response,                \* MorphResponse.morph_sequence_paths, None if none
    morph_error,             \* exception leaving handle_morph_request, None if none
    morph_pc,                \* "idle", "done", "failed"
    served,                  \* the morph responses returned so far: paths and what they held
    mesh_call,               \* arguments of a direct call of interpolate_meshes
    mesh_result,             \* its outcome, None before the call
    mesh_pc,                 \* "idle", "done"
    pdf,                     \* the document behind pdf_bytes, as the decoder sees it
    scan,                    \* DexaScanData returned by parse_pdf_bytes, None if none
    parse_error,             \* exception leaving parse_pdf_bytes, None if none
    parse_pc,                \* "idle", "done", "failed"
    region_result,           \* outcome of _extract_region_metrics on the recovered text
    extract_pc,              \* "idle", "done"
    pdf_paths,               \* BatchProcessRequest.pdf_paths
    disk,                    \* what Path(p) holds for each path: a document or Missing
    batch_i,                 \* position of the loop of process_batch in pdf_paths
    processed,               \* the list object `processed` of batch_process
    failed,                  \* the dict object `failed` of batch_process
    item_ids,                \* per handled item: the avatar id it appended, None if none
    batch_response,          \* BatchProcessResponse returned by the handler, None before
    batch_pc,                \* "received", "scheduled", "running", "finished"
    upload,                  \* the document behind dexa_file
    photo,                   \* the body photo (None if none) and what the pose detector makes of it
    refined,                 \* outcome of refine_parameters_with_photo called directly
    refine_pc,               \* "idle", "done"
    avatar_result,           \* outcome of generate_avatar: the response or the HTTPException
    avatar_pc                \* "idle", "done", "failed"

synth_vars == <<body_kwargs, regions_arg, dexa_data, body_scale_adjustments, supplied,
                params, synth_pc>>
morph_vars == <<request, sequence, files, next_id, response, morph_error, morph_pc,
                served>>
parse_vars == <<pdf, scan, parse_error, parse_pc, region_result, extract_pc>>
batch_vars == <<pdf_paths, disk, batch_i, processed, failed, item_ids, batch_response,
                batch_pc>>
photo_vars == <<upload, photo, refined, refine_pc, avatar_result, avatar_pc>>
mesh_vars == <<mesh_call, mesh_result, mesh_pc>>
vars == <<synth_vars, morph_vars, parse_vars, batch_vars, photo_vars, mesh_vars>>

(***************************************************************************)
(* avatar_generator.py: map_metrics_to_parameters                          *)
(***************************************************************************)
REGION_NAMES == {"arms", "legs", "trunk", "android", "gynoid"}

\* `"r" in regions and regions["r"].fat_percent is not None`, else None
RegionFat(regions, name) ==
    IF name \in DOMAIN regions /\ regions[name].fat_percent # None
    THEN regions[name].fat_percent ELSE None

\* one coefficient block: betas[i] stays 0.0 unless the source is present
Normalized(v, center, spread) ==
    IF v = None THEN Zero
    ELSE Clip(RDiv(RSub(v, center), spread), Int2Rat(-2), Int2Rat(2))

Beta0(d) == Normalized(d.body_metrics.total_fat_percent, Int2Rat(25), Int2Rat(15))
Beta1(d) == Normalized(d.body_metrics.height_cm, Int2Rat(170), Int2Rat(20))
Beta2(d) == Normalized(d.body_metrics.total_lean_mass_kg, Int2Rat(50), Int2Rat(20))
Beta3(d) == Normalized(d.body_metrics.weight_kg, Int2Rat(70), Int2Rat(20))
Beta4(d) == Normalized(RegionFat(d.regions, "android"), Int2Rat(30), Int2Rat(15))
Beta5(d) == Normalized(RegionFat(d.regions, "gynoid"), Int2Rat(35), Int2Rat(15))
Beta6Legs(d) == Normalized(RegionFat(d.regions, "arms"), Int2Rat(30), Int2Rat(15))
Beta6(d) == Normalized(RegionFat(d.regions, "arms"), Int2Rat(25), Int2Rat(15))
Beta7(d) == Normalized(RegionFat(d.regions, "legs"), Int2Rat(30), Int2Rat(15))
Beta8(d) == Normalized(RegionFat(d.regions, "trunk"), Int2Rat(30), Int2Rat(15))
Beta9(d) == Normalized(d.body_metrics.total_bone_mass_kg, Int2Rat(3), <<3, 2>>)

\* betas.tolist(): slot i of the source is element i + 1 here
MapBetas(d) ==
    <<Beta0(d), Beta1(d), Beta2(d), Beta3(d), Beta4(d),
      Beta5(d), Beta6(d), Beta7(d), Beta8(d), Beta9(d)>>

\* bmi = weight / (height / 100) ** 2 ; 0.8 + (bmi - 20) / 30, clipped to [0.7, 1.3]
OverallScaleUnclipped(body) ==
    LET m == RDiv(body.height_cm, Int2Rat(100))
        bmi == RDiv(body.weight_kg, RMul(m, m))
    IN  RAdd(<<4, 5>>, RDiv(RSub(bmi, Int2Rat(20)), Int2Rat(30)))
OverallScale(body) ==
    LET m == RDiv(body.height_cm, Int2Rat(100))
        bmi == RDiv(body.weight_kg, RMul(m, m))
    IN  Clip(RAdd(<<4, 5>>, RDiv(RSub(bmi, Int2Rat(20)), Int2Rat(30))), <<7, 10>>, <<13, 10>>)

\* `body_scale_adjustments or {}`: None and the empty dict give a fresh dict
DictTruthy(adj) == ~adj.is_none /\ DOMAIN adj.items # {}

\* the dict `scales` when the function returns
MapScales(d, adj) ==
    LET scales == IF DictTruthy(adj) THEN adj.items ELSE EmptyDict
    IN  IF Truthy(d.body_metrics.height_cm) /\ Truthy(d.body_metrics.weight_kg)
        THEN DictSet(scales, "overall", OverallScale(d.body_metrics))
        ELSE scales

MapNotes == <<"SMPL-X parameters generated from DEXA metrics with improved mapping">>

\* the returned record; its scales field is a validated copy of `scales`
map_metrics_to_parameters(d, adj) == AvatarParameters(MapBetas(d), MapScales(d, adj), MapNotes)

\* what the call leaves in the caller's dict object: `scales` aliases it when it is truthy
CallerDictAfter(d, adj) == IF DictTruthy(adj) THEN PyDict(MapScales(d, adj)) ELSE adj

\* DexaScanData(body_metrics=DexaBodyMetrics(**kw), regions={...})
BuildScanData ==
    /\ synth_pc = "new"
    /\ IF DexaScanData(body_kwargs, regions_arg)
       THEN /\ dexa_data' = ScanRecord(None, None, None, body_kwargs, regions_arg)
            /\ synth_pc' = "built"
       ELSE /\ dexa_data' = None
            /\ synth_pc' = "invalid"
    /\ UNCHANGED <<body_kwargs, regions_arg, body_scale_adjustments, supplied, params>>

MapMetrics ==
    /\ synth_pc = "built"
    /\ params' = map_metrics_to_parameters(dexa_data, body_scale_adjustments)
    /\ body_scale_adjustments' = CallerDictAfter(dexa_data, body_scale_adjustments)
    /\ synth_pc' = "mapped"
    /\ UNCHANGED <<body_kwargs, regions_arg, dexa_data, supplied>>

(***************************************************************************)
(* Inputs of the synthesizer.                                              *)
(***************************************************************************)
Dec(i, tenths) == Rat(10 * i + tenths, 10)

RegionMetric(fat, lean, bone) ==
    [fat_mass_kg |-> None, lean_mass_kg |-> lean, bone_mass_kg |-> bone, fat_percent |-> fat]

\* the record of test_parameter_clamping
ClampingBody ==
    [height_cm |-> Int2Rat(300), weight_kg |-> Int2Rat(500),
     total_fat_percent |-> Int2Rat(100), total_lean_mass_kg |-> Int2Rat(200),
     total_bone_mass_kg |-> None, android_fat_percent |-> None, gynoid_fat_percent |-> None]

BodyInputs ==
    { [height_cm |-> h, weight_kg |-> w, total_fat_percent |-> f,
       total_lean_mass_kg |-> l, total_bone_mass_kg |-> b,
       android_fat_percent |-> ag[1], gynoid_fat_percent |-> ag[2]] :
         h \in {None, Int2Rat(50), Int2Rat(170), Int2Rat(250)},
         w \in {None, Int2Rat(20), Int2Rat(70), Int2Rat(250)},
         f \in {None, Zero, Int2Rat(25), Int2Rat(80)},
         l \in {None, Zero, Int2Rat(60)},
         b \in {None, Int2Rat(50)},
         ag \in {<<None, None>>, <<Int2Rat(35), Int2Rat(40)>>} }
    \cup {ClampingBody}

FatInputs == {None, Zero, Dec(35, 2), Int2Rat(100)}

RegionInputs ==
    UNION { [K -> {RegionMetric(f, None, None) : f \in FatInputs}] :
               K \in {{}, {"android"}, {"gynoid", "arms"}, {"android fat %"}} }
    \cup UNION { [K -> {RegionMetric(f, Dec(12, 1), Dec(1, 8)) : f \in {None, Int2Rat(45)}}] :
               K \in {{"legs", "trunk"}} }
    \cup { [k \in REGION_NAMES |-> RegionMetric(f, None, None)] : f \in FatInputs }

AdjustmentInputs ==
    { PyNone, PyDict(EmptyDict), PyDict([shoulders |-> <<11, 10>>]),
      PyDict([overall |-> <<6, 5>>, hips |-> <<9, 10>>]) }

SynthNext ==
    \/ BuildScanData /\ UNCHANGED <<mesh_vars, morph_vars, parse_vars, batch_vars, photo_vars>>
    \/ MapMetrics /\ UNCHANGED <<mesh_vars, morph_vars, parse_vars, batch_vars, photo_vars>>

(***************************************************************************)
(* Claims about map_metrics_to_parameters.                                 *)
(***************************************************************************)
Between(lo, x, hi) == RLe(lo, x) /\ RLe(x, hi)

\* C1: for a valid scan record and any regions mapping, the returned betas
\* list has length exactly 10 and every element lies in [-2.0, 2.0],
\* whatever subset of the source fields is absent.
C1_TenClampedCoefficients ==
    synth_pc = "mapped" =>
        /\ Len(params.betas) = 10
        /\ \A i \in 1..Len(params.betas) :
               Between(Int2Rat(-2), params.betas[i], Int2Rat(2))

\* a mapped record with absent fields and a slot that was clamped at 2.0
C1_Witness ==
    /\ synth_pc = "mapped"
    /\ dexa_data.body_metrics.total_fat_percent = None
    /\ dexa_data.body_metrics.height_cm = Int2Rat(250)
    /\ params.betas[2] = Int2Rat(2)
    /\ DOMAIN dexa_data.regions = {}

\* the table of the claim: slot -> (center, spread), slots numbered from 0
C2_Center == <<Int2Rat(25), Int2Rat(170), Int2Rat(50), Int2Rat(70), Int2Rat(30),
               Int2Rat(35), Int2Rat(25), Int2Rat(30), Int2Rat(30), Int2Rat(3)>>
C2_Spread == <<Int2Rat(15), Int2Rat(20), Int2Rat(20), Int2Rat(20), Int2Rat(15),
               Int2Rat(15), Int2Rat(15), Int2Rat(15), Int2Rat(15), <<3, 2>>>>
C2_RegionOfSlot == [i \in 4..8 |-> <<"android", "gynoid", "arms", "legs", "trunk">>[i - 3]]
C2_Source(d, i) ==
    CASE i = 0 -> d.body_metrics.total_fat_percent
      [] i = 1 -> d.body_metrics.height_cm
      [] i = 2 -> d.body_metrics.total_lean_mass_kg
      [] i = 3 -> d.body_metrics.weight_kg
      [] i = 9 -> d.body_metrics.total_bone_mass_kg
      [] OTHER -> IF C2_RegionOfSlot[i] \in DOMAIN d.regions
                  THEN d.regions[C2_RegionOfSlot[i]].fat_percent ELSE None
C2_Expected(d, i) ==
    LET v == C2_Source(d, i)
        q == IF v = None THEN Zero ELSE RDiv(RSub(v, C2_Center[i + 1]), C2_Spread[i + 1])
    IN  IF RLt(q, Int2Rat(-2)) THEN Int2Rat(-2)
        ELSE IF RLt(Int2Rat(2), q) THEN Int2Rat(2) ELSE q

\* C2: slot i is clamp((v - center_i) / spread_i, -2, 2) when its source
\* field v is present and 0.0 when it is absent, with the sources, centers
\* and spreads of the table; all fields absent and no regions gives ten
\* zeros, and total fat percent 25.0 gives 0 in slot 0.
C2_SlotTable ==
    synth_pc = "mapped" =>
        /\ \A i \in 0..9 : params.betas[i + 1] = C2_Expected(dexa_data, i)
        /\ ((\A f \in BodyFields : dexa_data.body_metrics[f] = None)
               /\ DOMAIN dexa_data.regions = {})
             => \A i \in 0..9 : params.betas[i + 1] = Zero
        /\ dexa_data.body_metrics.total_fat_percent = Int2Rat(25)
             => params.betas[1] = Zero

\* every region slot filled from its own region, the body slots absent
C2_Witness ==
    /\ synth_pc = "mapped"
    /\ DOMAIN dexa_data.regions = REGION_NAMES
    /\ dexa_data.regions["arms"].fat_percent = Dec(35, 2)
    /\ params.betas[7] = <<17, 25>>
    /\ params.betas[5] = <<26, 75>>
    /\ dexa_data.body_metrics.weight_kg = None
    /\ params.betas[4] = Zero

C10_BothPresent == dexa_data.body_metrics.height_cm # None /\ dexa_data.body_metrics.weight_kg # None
C10_Derived ==
    LET h == dexa_data.body_metrics.height_cm
        w == dexa_data.body_metrics.weight_kg
        bmi == RDiv(w, RMul(RDiv(h, Int2Rat(100)), RDiv(h, Int2Rat(100))))
        raw == RAdd(<<8, 10>>, RDiv(RSub(bmi, Int2Rat(20)), Int2Rat(30)))
    IN  IF RLt(raw, <<7, 10>>) THEN <<7, 10>>
        ELSE IF RLt(<<13, 10>>, raw) THEN <<13, 10>> ELSE raw

LinspaceOpen(k, steps) == Rat(k, steps)
LinspaceDouble(k, steps) == Rat(2 * k, steps - 1)
Linspace(k, steps) == Rat(k, steps - 1)

\* an exception is the tuple <<class name, message>>
Raised(exc) == [raised |-> TRUE, exc |-> exc, value |-> None]
Returned(v) == [raised |-> FALSE, exc |-> None, value |-> v]

\* one element of the list: start * (1 - t) + end * t, scales over the union of keys
InterpolatedSwapped(start, end, t) ==
    AvatarParameters(
        [i \in 1..Len(start.betas) |->
            RAdd(RMul(start.betas[i], t), RMul(end.betas[i], RSub(One, t)))],
        [key \in (DOMAIN start.scales) \cup (DOMAIN end.scales) |->
            RAdd(RMul(DictGet(start.scales, key, One), RSub(One, t)),
                 RMul(DictGet(end.scales, key, One), t))],
        None)
InterpolatedCommonKeys(start, end, t) ==
    AvatarParameters(
        [i \in 1..Len(start.betas) |->
            RAdd(RMul(start.betas[i], RSub(One, t)), RMul(end.betas[i], t))],
        [key \in (DOMAIN start.scales) \cap (DOMAIN end.scales) |->
            RAdd(RMul(start.scales[key], RSub(One, t)), RMul(end.scales[key], t))],
        None)
Interpolated(start, end, t) ==
    AvatarParameters(
        [i \in 1..Len(start.betas) |->
            RAdd(RMul(start.betas[i], RSub(One, t)), RMul(end.betas[i], t))],
        [key \in (DOMAIN start.scales) \cup (DOMAIN end.scales) |->
            RAdd(RMul(DictGet(start.scales, key, One), RSub(One, t)),
                 RMul(DictGet(end.scales, key, One), t))],
        None)

\* without the shape test numpy broadcasts a one-element vector
interpolate_parameters_unchecked(start, end, steps) ==
    LET n == IF Len(start.betas) < Len(end.betas) THEN Len(start.betas) ELSE Len(end.betas)
        s == [start EXCEPT !.betas = SubSeq(start.betas, 1, n)]
        e == [end EXCEPT !.betas = SubSeq(end.betas, 1, n)]
    IN  Returned([k \in 1..steps |-> Interpolated(s, e, Linspace(k - 1, steps))])
interpolate_parameters(start, end, steps) ==
    IF Len(start.betas) # Len(end.betas)
    THEN Raised(<<"ValueError", "Parameter vectors must have identical shapes">>)
    ELSE Returned([k \in 1..steps |-> Interpolated(start, end, Linspace(k - 1, steps))])

\* vertex / face array shapes of the two mesh sources of generate_avatar_assets
Topology(kind) == IF kind = "smplx" THEN <<10475, 20908>> ELSE <<2562, 5120>>

interpolate_meshes_by_vertices(start_mesh, end_mesh, steps) ==
    IF start_mesh.class # "Trimesh" \/ end_mesh.class # "Trimesh"
    THEN Raised(<<"AttributeError">>)
    ELSE IF start_mesh.topology[1] # end_mesh.topology[1]
    THEN Raised(<<"ValueError", "Meshes must have the same vertex count for interpolation">>)
    ELSE Returned([k \in 1..steps |->
            [class |-> "Trimesh", topology |-> start_mesh.topology,
             vertices |-> <<start_mesh.vertices, end_mesh.vertices, Linspace(k - 1, steps)>>]])
\* interpolate_meshes: the loaded objects must expose equal vertex and face shapes
interpolate_meshes(start_mesh, end_mesh, steps) ==
    IF start_mesh.class # "Trimesh" \/ end_mesh.class # "Trimesh"
    THEN Raised(<<"AttributeError">>)
    ELSE IF start_mesh.topology[1] # end_mesh.topology[1]
    THEN Raised(<<"ValueError", "Meshes must have the same vertex count for interpolation">>)
    ELSE IF start_mesh.topology[2] # end_mesh.topology[2]
    THEN Raised(<<"ValueError", "Meshes must have the same face structure">>)
    ELSE Returned([k \in 1..steps |->
            [class |-> "Trimesh", topology |-> start_mesh.topology,
             vertices |-> <<start_mesh.vertices, end_mesh.vertices, Linspace(k - 1, steps)>>]])

AvatarPath(id, ext) == <<"output", id, ext>>
MorphPath(idx, ext) == <<"output/morphs", idx, ext>>

WriteAll(fs, paths, content) ==
    [p \in (DOMAIN fs) \cup {paths[i] : i \in 1..Len(paths)} |->
        IF \E i \in 1..Len(paths) : paths[i] = p
        THEN content[CHOOSE i \in 1..Len(paths) : paths[i] = p]
        ELSE fs[p]]

\* generate_avatar_assets: a fresh id, the exported mesh and the metadata file
AvatarMesh(parameters, kind) ==
    [class |-> "Trimesh", topology |-> Topology(kind), vertices |-> <<parameters.betas>>]
AssetsWritten(fs, id, parameters, kind) ==
    WriteAll(fs, <<AvatarPath(id, "glb"), AvatarPath(id, "json")>>,
                 <<AvatarMesh(parameters, kind), parameters>>)

\* handle_morph_request(request, generate_meshes)
\*   start_kind, end_kind: which mesh generate_smplx_mesh / the fallback produced
\*   loaded: the class of object trimesh.load returns for a GLB file
HandleMorphRequest(start_kind, end_kind, loaded) ==
    /\ morph_pc = "idle"
    /\ LET seq == interpolate_parameters(request.start_parameters, request.end_parameters,
                                         request.steps)
       IN  IF seq.raised
           THEN /\ morph_error' = seq.exc
                /\ morph_pc' = "failed"
                /\ UNCHANGED <<sequence, files, next_id, response>>
           ELSE IF request.generate_meshes
           THEN LET fs1 == AssetsWritten(files, next_id + 1, request.start_parameters, start_kind)
                    fs2 == AssetsWritten(fs1, next_id + 2, request.end_parameters, end_kind)
                    start_mesh == [fs2[AvatarPath(next_id + 1, "glb")] EXCEPT !.class = loaded]
                    end_mesh == [fs2[AvatarPath(next_id + 2, "glb")] EXCEPT !.class = loaded]
                    meshes == interpolate_meshes(start_mesh, end_mesh, request.steps)
                    paths == [k \in 1..request.steps |-> MorphPath(k - 1, "glb")]
                IN  /\ sequence' = seq.value
                    /\ next_id' = next_id + 2
                    /\ IF meshes.raised
                       THEN /\ files' = fs2
                            /\ morph_error' = meshes.exc
                            /\ morph_pc' = "failed"
                            /\ UNCHANGED response
                       ELSE /\ files' = WriteAll(fs2, paths, meshes.value)
                            /\ response' = paths
                            /\ morph_pc' = "done"
                            /\ UNCHANGED morph_error
           ELSE LET paths == [k \in 1..request.steps |-> MorphPath(k - 1, "json")]
                IN  /\ sequence' = seq.value
                    /\ files' = WriteAll(files, paths, seq.value)
                    /\ response' = paths
                    /\ morph_pc' = "done"
                    /\ UNCHANGED <<next_id, morph_error>>
    /\ UNCHANGED request

MorphAvatar ==
    \E start_kind \in {"smplx", "placeholder"}, end_kind \in {"smplx", "placeholder"},
       loaded \in {"Trimesh", "Scene"} :
        HandleMorphRequest(start_kind, end_kind, loaded)

(***************************************************************************)
(* Inputs of the morph sequencer.                                          *)
(***************************************************************************)
MaxBetas == 2
MaxSteps == 4

BetaInputs == UNION { [1..n -> {Int2Rat(-2), <<1, 2>>}] : n \in 0..MaxBetas }
ScaleInputs == { EmptyDict, [overall |-> <<6, 5>>], [hips |-> <<9, 10>>],
                 [overall |-> <<4, 5>>, hips |-> <<11, 10>>] }
ParameterInputs ==
    { AvatarParameters(b, sc, n) : b \in BetaInputs, sc \in ScaleInputs,
                                   n \in {None, Str("from report")} }

\* MorphRequest: steps is validated to lie in 2 .. 120
MorphRequests ==
    { [start_parameters |-> a, end_parameters |-> b, steps |-> n, generate_meshes |-> g] :
        a \in ParameterInputs, b \in ParameterInputs, n \in 2..MaxSteps, g \in BOOLEAN }

MorphNext == MorphAvatar /\ UNCHANGED <<mesh_vars, synth_vars, parse_vars, batch_vars, photo_vars, served>>

(***************************************************************************)
(* main.py: morph_avatar serving one request after another.                *)
(***************************************************************************)
MaxRequests == 2

\* requests over one coefficient and no scale overrides
SerialRequests ==
    { r \in MorphRequests :
        /\ Len(r.start_parameters.betas) = 1 /\ Len(r.end_parameters.betas) = 1
        /\ r.start_parameters.scales = EmptyDict /\ r.end_parameters.scales = EmptyDict
        /\ r.start_parameters.notes = None /\ r.end_parameters.notes = None
        /\ r.steps <= 3 }

\* the response of the request in hand has gone out (or its failure has)
\* and the endpoint is called with the next request
NextMorphRequest ==
    /\ morph_pc \in {"done", "failed"}
    /\ Len(served) + 1 < MaxRequests
    /\ served' = Append(served,
                        IF morph_pc = "done"
                        THEN [paths |-> response,
                              held |-> [k \in 1..Len(response) |-> files[response[k]]]]
                        ELSE [paths |-> << >>, held |-> << >>])
    /\ request' \in SerialRequests
    /\ sequence' = None
    /\ response' = None
    /\ morph_error' = None
    /\ morph_pc' = "idle"
    /\ UNCHANGED <<files, next_id>>

(***************************************************************************)
(* morphing.py: interpolate_meshes called on two meshes.                   *)
(***************************************************************************)
\* meshes by the shapes of their vertex and face arrays and, third, by which
\* face array they carry
MeshInputs ==
    { [class |-> "Trimesh", topology |-> <<v, f, id>>, vertices |-> <<id>>] :
        v \in {10475, 2562}, f \in {20908, 5120}, id \in {"faces A", "faces B"} }

InterpolateMeshes ==
    /\ mesh_pc = "idle"
    /\ mesh_result' = interpolate_meshes(mesh_call.start_mesh, mesh_call.end_mesh,
                                         mesh_call.steps)
    /\ mesh_pc' = "done"
    /\ UNCHANGED mesh_call

MeshNext ==
    \/ MorphAvatar /\ UNCHANGED <<synth_vars, parse_vars, batch_vars, photo_vars, served,
                                  mesh_vars>>
    \/ InterpolateMeshes
         /\ UNCHANGED <<synth_vars, morph_vars, parse_vars, batch_vars, photo_vars>>

SerialNext ==
    \/ MorphAvatar /\ UNCHANGED <<mesh_vars, synth_vars, parse_vars, batch_vars, photo_vars, served>>
    \/ NextMorphRequest /\ UNCHANGED <<mesh_vars, synth_vars, parse_vars, batch_vars, photo_vars>>

(***************************************************************************)
(* dexa_parser.py.  Text is a sequence of symbols: single characters       *)
(* (white space, digits, punctuation) and whole words or units.            *)
(***************************************************************************)
IsSpace(c) == c \in {" ", "\t", "\n"}

Digits == <<"0", "1", "2", "3", "4", "5", "6", "7", "8", "9">>
IsDigit(c) == \E d \in 1..10 : Digits[d] = c
DigitVal(c) == (CHOOSE d \in 1..10 : Digits[d] = c) - 1

\* str.lower() / re.I on the words of the alphabet
Lower(c) ==
    CASE c = "Total" -> "total" [] c = "Body" -> "body" [] c = "Fat" -> "fat"
      [] c = "Weight" -> "weight" [] c = "Height" -> "height"
      [] c = "Android" -> "android" [] c = "Left" -> "left" [] c = "Arms" -> "arms"
      [] c = "Name" -> "name" [] c = "(KG)" -> "(kg)"
      [] OTHER -> c

RECURSIVE SkipSpaces(_, _)
\* first index >= i that holds no white space
SkipSpaces(text, i) ==
    IF i <= Len(text) /\ IsSpace(text[i]) THEN SkipSpaces(text, i + 1) ELSE i

RECURSIVE DigitsEnd(_, _)
\* first index >= i that holds no digit
DigitsEnd(text, i) ==
    IF i <= Len(text) /\ IsDigit(text[i]) THEN DigitsEnd(text, i + 1) ELSE i

RECURSIVE IntOf(_, _, _)
\* the decimal digits text[i .. j - 1] read as an integer
IntOf(text, i, j) ==
    IF i >= j THEN 0 ELSE 10 * IntOf(text, i, j - 1) + DigitVal(text[j - 1])

RECURSIVE Pow10(_)
Pow10(n) == IF n = 0 THEN 1 ELSE 10 * Pow10(n - 1)

\* \d+(?:\.\d+)? matched at a digit at index i, and float() of the match
NumberAt(text, i) ==
    LET e1 == DigitsEnd(text, i)
        frac == e1 + 1 <= Len(text) /\ text[e1] = "." /\ IsDigit(text[e1 + 1])
        e2 == IF frac THEN DigitsEnd(text, e1 + 1) ELSE e1
        k == IF frac THEN e2 - e1 - 1 ELSE 0
    IN  [end |-> e2,
         value |-> IF frac
                   THEN Rat(IntOf(text, i, e1) * Pow10(k) + IntOf(text, e1 + 1, e2), Pow10(k))
                   ELSE Int2Rat(IntOf(text, i, e1))]

\* label words joined by \s+, then \s* unit \s* [:\-]? \s* (number)
METRIC_PATTERNS ==
    [total_fat_percent |-> [labels |-> {<<"total", "body", "fat">>}, unit |-> "%", optional |-> TRUE],
     total_lean_mass_kg |-> [labels |-> {<<"lean", "mass">>}, unit |-> "(kg)", optional |-> FALSE],
     total_bone_mass_kg |-> [labels |-> {<<"bone", "mass">>, <<"bmd">>}, unit |-> "(kg)", optional |-> FALSE],
     weight_kg |-> [labels |-> {<<"weight">>}, unit |-> "(kg)", optional |-> FALSE],
     height_cm |-> [labels |-> {<<"height">>}, unit |-> "(cm)", optional |-> FALSE],
     android_fat_percent |-> [labels |-> {<<"android", "fat">>}, unit |-> "%", optional |-> TRUE],
     gynoid_fat_percent |-> [labels |-> {<<"gynoid", "fat">>}, unit |-> "%", optional |-> TRUE]]

RECURSIVE LabelEnd(_, _, _, _)
\* index after the label whose w-th word is at index i; 0 when the label does not match
LabelEnd(words, text, i, w) ==
    IF i > Len(text) \/ Lower(text[i]) # words[w] THEN 0
    ELSE IF w = Len(words) THEN i + 1
    ELSE LET j == SkipSpaces(text, i + 1)
         IN  IF j = i + 1 THEN 0 ELSE LabelEnd(words, text, j, w + 1)

\* the captured number after a label that ended before index j, None when there is none
TailValue(pattern, text, j) ==
    LET j1 == SkipSpaces(text, j)
        has_unit == j1 <= Len(text) /\ Lower(text[j1]) = pattern.unit
        j2 == SkipSpaces(text, IF has_unit THEN j1 + 1 ELSE j1)
        j3 == SkipSpaces(text, IF j2 <= Len(text) /\ text[j2] \in {":", "-"} THEN j2 + 1 ELSE j2)
    IN  IF ~has_unit /\ ~pattern.optional THEN None
        ELSE IF j3 <= Len(text) /\ IsDigit(text[j3]) THEN NumberAt(text, j3).value
        ELSE None

MatchAt(pattern, text, i) ==
    LET ends == {LabelEnd(l, text, i, 1) : l \in pattern.labels} \ {0}
    IN  IF ends = {} THEN None ELSE TailValue(pattern, text, CHOOSE e \in ends : TRUE)

\* pattern.search(text): the leftmost match, float(match.group(1)), else None
_extract_first(pattern, text) ==
    LET starts == {i \in 1..Len(text) : MatchAt(pattern, text, i) # None}
    IN  IF starts = {} THEN None
        ELSE MatchAt(pattern, text, CHOOSE i \in starts : \A j \in starts : i <= j)

RECURSIVE SplitLines(_, _, _)
\* text.splitlines() from index i on, cur the line collected so far
SplitLines(text, i, cur) ==
    IF i > Len(text) THEN (IF cur = << >> THEN << >> ELSE <<cur>>)
    ELSE IF text[i] = "\n" THEN <<cur>> \o SplitLines(text, i + 1, << >>)
    ELSE SplitLines(text, i + 1, Append(cur, text[i]))

RECURSIVE LStrip(_)
LStrip(line) == IF line # << >> /\ IsSpace(Head(line)) THEN LStrip(Tail(line)) ELSE line
RECURSIVE RStrip(_)
RStrip(line) ==
    IF line # << >> /\ IsSpace(line[Len(line)]) THEN RStrip(SubSeq(line, 1, Len(line) - 1)) ELSE line
Strip(line) == RStrip(LStrip(line))

RECURSIVE SplitTokens(_, _, _)
\* re.split(r"\s{2,}|\t", line) from index i on, cur the token collected so far
SplitTokens(line, i, cur) ==
    IF i > Len(line) THEN <<cur>>
    ELSE LET j == SkipSpaces(line, i)
         IN  IF j - i >= 2 THEN <<cur>> \o SplitTokens(line, j, << >>)
             ELSE IF line[i] = "\t" THEN <<cur>> \o SplitTokens(line, i + 1, << >>)
             ELSE SplitTokens(line, i + 1, Append(cur, line[i]))

RECURSIVE JoinTokens(_)
\* " ".join(tokens)
JoinTokens(tokens) ==
    IF tokens = << >> THEN << >>
    ELSE IF Len(tokens) = 1 THEN tokens[1]
    ELSE tokens[1] \o <<" ">> \o JoinTokens(Tail(tokens))

RECURSIVE FindAll(_, _)
\* [float(v) for v in re.findall(r"\d+(?:\.\d+)?", text)] from index i on
FindAll(text, i) ==
    IF i > Len(text) THEN << >>
    ELSE IF IsDigit(text[i])
         THEN <<NumberAt(text, i).value>> \o FindAll(text, NumberAt(text, i).end)
         ELSE FindAll(text, i + 1)

RECURSIVE KeyString(_)
\* tokens[0].lower() as a Python string
KeyString(token) ==
    IF token = << >> THEN "" ELSE Lower(Head(token)) \o KeyString(Tail(token))

\* any(region in key for region in REGION_NAMES)
NamesRegion(token) == \E i \in 1..Len(token) : Lower(token[i]) \in REGION_NAMES

\* the DexaRegionMetrics keyword arguments built from the numbers of one line
RegionKwargs(values) ==
    [fat_mass_kg |-> None,
     fat_percent |-> values[1],
     lean_mass_kg |-> IF Len(values) > 1 THEN values[2] ELSE None,
     bone_mass_kg |-> IF Len(values) > 2 THEN values[3] ELSE None]

\* the non-blank stripped lines, tokenized
Tokenized(text) ==
    LET raw == SplitLines(text, 1, << >>)
        lines == SelectSeq([i \in 1..Len(raw) |-> Strip(raw[i])], LAMBDA l : l # << >>)
    IN  [i \in 1..Len(lines) |-> SplitTokens(lines[i], 1, << >>)]

RECURSIVE RegionLoopFirstWins(_, _, _)
RegionLoopFirstWins(tokenized, n, regions) ==
    IF n > Len(tokenized) THEN Returned(regions)
    ELSE LET tokens == tokenized[n]
             values == FindAll(JoinTokens(Tail(tokens)), 1)
         IN  IF NamesRegion(tokens[1]) /\ values # << >>
             THEN IF DexaRegionMetrics(RegionKwargs(values))
                  THEN RegionLoopFirstWins(tokenized, n + 1,
                           IF KeyString(tokens[1]) \in DOMAIN regions THEN regions
                           ELSE DictSet(regions, KeyString(tokens[1]), RegionKwargs(values)))
                  ELSE Raised(<<"ValidationError">>)
             ELSE RegionLoopFirstWins(tokenized, n + 1, regions)
RECURSIVE RegionLoop(_, _, _)
\* the loop over the tokenized lines from line n on
RegionLoop(tokenized, n, regions) ==
    IF n > Len(tokenized) THEN Returned(regions)
    ELSE LET tokens == tokenized[n]
             values == FindAll(JoinTokens(Tail(tokens)), 1)
         IN  IF NamesRegion(tokens[1]) /\ values # << >>
             THEN IF DexaRegionMetrics(RegionKwargs(values))
                  THEN RegionLoop(tokenized, n + 1,
                                  DictSet(regions, KeyString(tokens[1]), RegionKwargs(values)))
                  ELSE Raised(<<"ValidationError">>)
             ELSE RegionLoop(tokenized, n + 1, regions)

_extract_region_metrics(text) == RegionLoop(Tokenized(text), 1, EmptyDict)

RECURSIVE JoinPages(_)
\* "\n".join(page.extract_text() or "" for page in pdf.pages); None and "" are both << >>
JoinPages(pages) ==
    IF pages = << >> THEN << >>
    ELSE IF Len(pages) = 1 THEN pages[1]
    ELSE pages[1] \o <<"\n">> \o JoinPages(Tail(pages))

\* not pages_text.strip()
Blank(text) == \A i \in 1..Len(text) : IsSpace(text[i])

BodyKwargs(text) == [f \in BodyFields |-> _extract_first(METRIC_PATTERNS[f], text)]

NoTextError == <<"DexaParserError", "Unable to read text from PDF">>
NoMetricsError == <<"DexaParserError", "Failed to extract primary DEXA metrics">>

\* the test that guards the 'no metrics' failure: any(body_kwargs.values())
AnyPresent(kwargs) == \E f \in BodyFields : kwargs[f] # None
AnyTruthy(kwargs) == \E f \in BodyFields : Truthy(kwargs[f])

\* the statements after the text has been recovered
ParseMetricsFirst(text) ==
    LET kwargs == BodyKwargs(text)
        regions == _extract_region_metrics(text)
    IN  IF ~AnyTruthy(kwargs) THEN Raised(NoMetricsError)
        ELSE IF Blank(text) THEN Raised(NoTextError)
        ELSE IF regions.raised THEN regions
        ELSE IF ~DexaBodyMetrics(kwargs) THEN Raised(<<"ValidationError">>)
        ELSE Returned(ScanRecord(None, None, None, kwargs, regions.value))
ParseText(text) ==
    LET kwargs == BodyKwargs(text)
        regions == _extract_region_metrics(text)
    IN  IF Blank(text) THEN Raised(NoTextError)
        ELSE IF ~AnyTruthy(kwargs) THEN Raised(NoMetricsError)
        ELSE IF regions.raised THEN regions
        ELSE IF ~DexaBodyMetrics(kwargs) THEN Raised(<<"ValidationError">>)
        ELSE Returned(ScanRecord(None, None, None, kwargs, regions.value))

\* pdfplumber.open is called outside any try block: on bytes it cannot decode
\* the decoder's own exception (pdfminer's PDFSyntaxError) leaves the function
parse_pdf_bytes(doc) ==
    IF ~doc.decodable THEN Raised(<<"PDFSyntaxError">>) ELSE ParseText(JoinPages(doc.pages))

ParsePdfBytes ==
    /\ parse_pc = "idle"
    /\ LET r == parse_pdf_bytes(pdf)
       IN  IF r.raised
           THEN /\ parse_error' = r.exc
                /\ parse_pc' = "failed"
                /\ UNCHANGED scan
           ELSE /\ scan' = r.value
                /\ parse_pc' = "done"
                /\ UNCHANGED parse_error
    /\ UNCHANGED <<pdf, region_result, extract_pc>>

\* _extract_region_metrics called on the text of a decodable document
ExtractRegionMetrics ==
    /\ extract_pc = "idle"
    /\ pdf.decodable
    /\ region_result' = _extract_region_metrics(JoinPages(pdf.pages))
    /\ extract_pc' = "done"
    /\ UNCHANGED <<pdf, scan, parse_error, parse_pc>>

(***************************************************************************)
(* Inputs of the parser: each page carries one line of report text.        *)
(***************************************************************************)
MaxPages == 2

LabelInputs ==
    { <<"Total", " ", "Body", " ", "Fat", " ", "%">>,
      <<"Weight", " ", "(KG)">>,
      <<"Height", " ", "(cm)">>,
      <<"Android">>,
      <<"android", " ", "fat", " ", "%">>,
      <<"Left", " ", "Arms">>,
      <<"Name">> }

Gap == <<" ", " ", " ">>
N0 == <<"0">>
N35_2 == <<"3", "5", ".", "2">>
N12_1 == <<"1", "2", ".", "1">>
N1_8 == <<"1", ".", "8">>
N120 == <<"1", "2", "0">>
N72_5 == <<"7", "2", ".", "5">>

\* what follows the label on a line
ValueInputs ==
    { << >>,
      <<":", " ">> \o N0,
      <<":", " ">> \o N72_5,
      <<"\t">> \o N120 \o <<" ", "\t">> \o N12_1,
      Gap \o N35_2 \o Gap \o N12_1 \o Gap \o N1_8,
      Gap \o N35_2 \o Gap \o N12_1 \o Gap \o N1_8 \o Gap \o N0,
      Gap \o N1_8 }

LineInputs == { l \o v : l \in LabelInputs, v \in ValueInputs } \cup { <<" ">> }

PdfInputs ==
    { [decodable |-> FALSE, pages |-> << >>] }
    \cup { [decodable |-> TRUE, pages |-> p] :
              p \in UNION { [1..n -> LineInputs \cup {None}] : n \in 0..MaxPages } }

(***************************************************************************)
(* avatar_generator.py: process_dexa_to_avatar, shared by the endpoints.   *)
(***************************************************************************)
\* str(e) of an exception
StrException(exc) == IF Len(exc) = 2 THEN exc[2] ELSE exc[1] \o " message"

\* process_dexa_to_avatar(dexa_data, body_scale_adjustments) with the file
\* system fs and `id` avatar ids drawn so far
\*   kind: which mesh generate_smplx_mesh / the fallback produced
\*   io_ok: whether the export of the GLB and the metadata file succeeds
process_dexa_to_avatar(d, adj, fs, id, kind, io_ok) ==
    LET parameters == map_metrics_to_parameters(d, adj)
    IN  IF ~io_ok
        THEN Raised(<<"OSError", "No space left on device">>)
        ELSE Returned([response |-> [avatar_id |-> id + 1,
                                     glb_path |-> AvatarPath(id + 1, "glb"),
                                     preview_image_path |-> None,
                                     parameters |-> parameters],
                       files |-> AssetsWritten(fs, id + 1, parameters, kind)])

(***************************************************************************)
(* main.py: batch_process and its background task process_batch.           *)
(***************************************************************************)
Missing == [decodable |-> FALSE, pages |-> << >>, exists |-> FALSE]
OnDisk(doc) == [decodable |-> doc.decodable, pages |-> doc.pages, exists |-> TRUE]

\* one pass of the loop body of process_batch for pdf_path
BatchItemSilent(pdf_path, file, fl, pr, fs, id, kind, io_ok) ==
    IF ~file.exists
    THEN [failed |-> fl, processed |-> pr, files |-> fs, ids |-> id]
    ELSE LET r == parse_pdf_bytes(file)
         IN  IF r.raised
             THEN [failed |-> DictSet(fl, pdf_path, StrException(r.exc)),
                   processed |-> pr, files |-> fs, ids |-> id]
             ELSE LET a == process_dexa_to_avatar(r.value, PyNone, fs, id, kind, io_ok)
                  IN  IF a.raised
                      THEN [failed |-> DictSet(fl, pdf_path, StrException(a.exc)),
                            processed |-> pr, files |-> fs, ids |-> id]
                      ELSE [failed |-> fl,
                            processed |-> Append(pr, a.value.response.avatar_id),
                            files |-> a.value.files, ids |-> id + 1]
BatchItem(pdf_path, file, fl, pr, fs, id, kind, io_ok) ==
    IF ~file.exists
    THEN [failed |-> DictSet(fl, pdf_path, "File not found"),
          processed |-> pr, files |-> fs, ids |-> id]
    ELSE LET r == parse_pdf_bytes(file)
         IN  IF r.raised
             THEN [failed |-> DictSet(fl, pdf_path, StrException(r.exc)),
                   processed |-> pr, files |-> fs, ids |-> id]
             ELSE LET a == process_dexa_to_avatar(r.value, PyNone, fs, id, kind, io_ok)
                  IN  IF a.raised
                      THEN [failed |-> DictSet(fl, pdf_path, StrException(a.exc)),
                            processed |-> pr, files |-> fs, ids |-> id]
                      ELSE [failed |-> fl,
                            processed |-> Append(pr, a.value.response.avatar_id),
                            files |-> a.value.files, ids |-> id + 1]

\* the handler: a job id, the two empty collections, the task scheduled and
\* the response built from the collections as they are now
BatchProcess ==
    /\ batch_pc = "received"
    /\ next_id' = next_id + 1
    /\ processed' = << >>
    /\ failed' = EmptyDict
    /\ batch_response' = [job_id |-> next_id + 1, processed |-> << >>, failed |-> EmptyDict]
    /\ batch_i' = 1
    /\ batch_pc' = "scheduled"
    /\ UNCHANGED <<pdf_paths, disk, item_ids, files>>

ProcessBatchItemShared ==
    /\ batch_pc \in {"scheduled", "running"}
    /\ batch_i <= Len(pdf_paths)
    /\ \E kind \in {"smplx", "placeholder"}, io_ok \in BOOLEAN :
         \E r \in {BatchItem(pdf_paths[batch_i], disk[pdf_paths[batch_i]], failed, processed,
                             files, next_id, kind, io_ok)} :
             /\ failed' = r.failed
             /\ processed' = r.processed
             /\ files' = r.files
             /\ next_id' = r.ids
             /\ batch_response' = [batch_response EXCEPT !.processed = r.processed,
                                                         !.failed = r.failed]
             /\ item_ids' = Append(item_ids,
                                   IF Len(r.processed) > Len(processed)
                                   THEN <<r.processed[Len(r.processed)]>> ELSE None)
    /\ batch_i' = batch_i + 1
    /\ batch_pc' = "running"
    /\ UNCHANGED <<pdf_paths, disk>>
\* process_batch: one iteration of `for pdf_path in request.pdf_paths`
ProcessBatchItem ==
    /\ batch_pc \in {"scheduled", "running"}
    /\ batch_i <= Len(pdf_paths)
    /\ \E kind \in {"smplx", "placeholder"}, io_ok \in BOOLEAN :
         \E r \in {BatchItem(pdf_paths[batch_i], disk[pdf_paths[batch_i]], failed, processed,
                             files, next_id, kind, io_ok)} :
             /\ failed' = r.failed
             /\ processed' = r.processed
             /\ files' = r.files
             /\ next_id' = r.ids
             /\ item_ids' = Append(item_ids,
                                   IF Len(r.processed) > Len(processed)
                                   THEN <<r.processed[Len(r.processed)]>> ELSE None)
    /\ batch_i' = batch_i + 1
    /\ batch_pc' = "running"
    /\ UNCHANGED <<pdf_paths, disk, batch_response>>

\* process_batch: the loop is exhausted and the task returns
ProcessBatchReturn ==
    /\ batch_pc \in {"scheduled", "running"}
    /\ batch_i > Len(pdf_paths)
    /\ batch_pc' = "finished"
    /\ UNCHANGED <<pdf_paths, disk, batch_i, processed, failed, item_ids, batch_response,
                   files, next_id>>

MaxBatch == 2
BatchPaths == {"a.pdf", "b.pdf"}
BatchDocs ==
    { Missing,
      OnDisk([decodable |-> FALSE, pages |-> << >>]),
      OnDisk([decodable |-> TRUE, pages |-> << <<"Name">> >>]),
      OnDisk([decodable |-> TRUE, pages |-> << <<"Weight", " ", "(KG)", ":", " ">> \o N72_5 >>]),
      OnDisk([decodable |-> TRUE,
              pages |-> << <<"Total", " ", "Body", " ", "Fat", " ", "%", "\t">> \o N120 >>]) }

BatchNext ==
    \/ BatchProcess
         /\ UNCHANGED <<mesh_vars, synth_vars, parse_vars, photo_vars, request, sequence, response,
                        morph_error, morph_pc, served>>
    \/ ProcessBatchItem
         /\ UNCHANGED <<mesh_vars, synth_vars, parse_vars, photo_vars, request, sequence, response,
                        morph_error, morph_pc, served>>
    \/ ProcessBatchReturn
         /\ UNCHANGED <<mesh_vars, synth_vars, parse_vars, photo_vars, request, sequence, response,
                        morph_error, morph_pc, served>>

(***************************************************************************)
(* personalization.py and the generate_avatar endpoint of main.py.         *)
(***************************************************************************)
\* extract_body_measurements(image_path)
\*   pose_available: _POSE is not None; readable: cv2.imread returns an image;
\*   fault: cv2.cvtColor or _POSE.process raises; landmarks: None if the
\*   detector finds none, else the three distances between the landmarks
extract_body_measurements(ph) ==
    IF ~ph.pose_available THEN Returned(EmptyDict)
    ELSE IF ~ph.readable THEN Raised(<<"FileNotFoundError", "Failed to load image">>)
    ELSE IF ph.fault THEN Raised(<<"RuntimeError", "pose estimation failed">>)
    ELSE IF ph.landmarks.is_none THEN Returned(EmptyDict)
    ELSE Returned(ph.landmarks.items)

\* derive_scale_adjustments(measurements, dexa_data)
derive_scale_adjustments(measurements, d) ==
    IF DOMAIN measurements = {} THEN EmptyDict
    ELSE LET shoulder_ratio == DictGet(measurements, "shoulder_width", None)
             hip_ratio == DictGet(measurements, "hip_width", None)
             fat == d.body_metrics.total_fat_percent
             s1 == IF Truthy(shoulder_ratio)
                   THEN DictSet(EmptyDict, "shoulders", RAdd(One, RSub(shoulder_ratio, <<3, 10>>)))
                   ELSE EmptyDict
             s2 == IF Truthy(hip_ratio)
                   THEN DictSet(s1, "hips", RAdd(One, RSub(hip_ratio, <<3, 10>>)))
                   ELSE s1
         IN  IF Truthy(fat)
             THEN DictSet(s2, "waist", RAdd(One, RDiv(RSub(fat, Int2Rat(25)), Int2Rat(100))))
             ELSE s2

\* refine_parameters_with_photo(dexa_data, photo_path); ph.given is FALSE
\* for photo_path = None
refine_parameters_unsuppressed(d, ph) ==
    IF ~ph.given THEN Returned(EmptyDict)
    ELSE LET m == extract_body_measurements(ph)
         IN  IF m.raised THEN m
             ELSE Returned(derive_scale_adjustments(m.value, d))
refine_parameters_with_photo(d, ph) ==
    IF ~ph.given THEN Returned(EmptyDict)
    ELSE LET m == extract_body_measurements(ph)
         IN  IF m.raised THEN Returned(EmptyDict)
             ELSE Returned(derive_scale_adjustments(m.value, d))

HTTPException(status_code, detail) == [status_code |-> status_code, detail |-> detail]

\* the except clauses of generate_avatar
AvatarFailure(exc) ==
    IF exc[1] = "DexaParserError"
    THEN Raised(HTTPException(422, "Failed to parse DEXA PDF: " \o StrException(exc)))
    ELSE Raised(HTTPException(500, "Internal error: " \o StrException(exc)))

\* generate_avatar(dexa_file, body_photo): the outcome, the file system and
\* the number of ids drawn when it returns; ph.stored tells whether the
\* temporary copy of the photo can be written
generate_avatar(doc, ph, fs, id, kind, io_ok) ==
    LET r == parse_pdf_bytes(doc)
    IN  IF r.raised
        THEN [outcome |-> AvatarFailure(r.exc), files |-> fs, ids |-> id]
        ELSE IF ph.given /\ ~ph.stored
        THEN [outcome |-> AvatarFailure(<<"PermissionError", "Permission denied">>),
              files |-> fs, ids |-> id + 1]
        ELSE LET drawn == IF ph.given THEN id + 1 ELSE id
                 adj == IF ph.given THEN refine_parameters_with_photo(r.value, ph)
                        ELSE Returned(EmptyDict)
                 a == process_dexa_to_avatar(r.value,
                                             IF ph.given THEN PyDict(adj.value) ELSE PyNone,
                                             fs, drawn, kind, io_ok)
             IN  IF adj.raised
                 THEN [outcome |-> AvatarFailure(adj.exc), files |-> fs, ids |-> drawn]
                 ELSE IF a.raised
                 THEN [outcome |-> AvatarFailure(a.exc), files |-> fs, ids |-> drawn]
                 ELSE [outcome |-> Returned(a.value.response), files |-> a.value.files,
                       ids |-> drawn + 1]

\* refine_parameters_with_photo called on the parsed upload
RefineParametersWithPhoto ==
    /\ refine_pc = "idle"
    /\ ~parse_pdf_bytes(upload).raised
    /\ refined' = refine_parameters_with_photo(parse_pdf_bytes(upload).value, photo)
    /\ refine_pc' = "done"
    /\ UNCHANGED <<upload, photo, avatar_result, avatar_pc, files, next_id>>

GenerateAvatar ==
    /\ avatar_pc = "idle"
    /\ \E kind \in {"smplx", "placeholder"}, io_ok \in BOOLEAN :
         \E g \in {generate_avatar(upload, photo, files, next_id, kind, io_ok)} :
             /\ avatar_result' = g.outcome
             /\ files' = g.files
             /\ next_id' = g.ids
             /\ avatar_pc' = IF g.outcome.raised THEN "failed" ELSE "done"
    /\ UNCHANGED <<upload, photo, refined, refine_pc>>

NoPhoto ==
    [given |-> FALSE, stored |-> FALSE, pose_available |-> FALSE, readable |-> FALSE,
     fault |-> FALSE, landmarks |-> PyNone]
MeasurementInputs ==
    { [shoulder_width |-> <<2, 5>>, hip_width |-> <<3, 10>>, torso_length |-> <<1, 2>>],
      [shoulder_width |-> Zero, hip_width |-> <<7, 20>>, torso_length |-> <<1, 2>>] }
PhotoInputs ==
    { NoPhoto }
    \cup { [given |-> TRUE, stored |-> st, pose_available |-> po, readable |-> re,
            fault |-> fa, landmarks |-> lm] :
              st \in BOOLEAN, po \in BOOLEAN, re \in BOOLEAN, fa \in BOOLEAN,
              lm \in {PyNone} \cup {PyDict(m) : m \in MeasurementInputs} }
UploadInputs ==
    { [decodable |-> FALSE, pages |-> << >>],
      [decodable |-> TRUE, pages |-> << <<"Name">> >>],
      [decodable |-> TRUE, pages |-> << <<"Weight", " ", "(KG)", ":", " ">> \o N72_5 >>],
      [decodable |-> TRUE,
       pages |-> << <<"Total", " ", "Body", " ", "Fat", " ", "%", ":", " ">> \o N72_5,
                    <<"Height", " ", "(cm)", ":", " ">> \o N72_5 >>] }

AvatarNext ==
    \/ RefineParametersWithPhoto
         /\ UNCHANGED <<mesh_vars, synth_vars, parse_vars, batch_vars, request, sequence, response,
                        morph_error, morph_pc, served>>
    \/ GenerateAvatar
         /\ UNCHANGED <<mesh_vars, synth_vars, parse_vars, batch_vars, request, sequence, response,
                        morph_error, morph_pc, served>>

(***************************************************************************)
(* Specifications: one per component, the other components at rest.        *)
(***************************************************************************)
\* the other components are at rest ("off") in each specification
Init ==
    /\ pdf \in PdfInputs
    /\ scan = None
    /\ parse_error = None
    /\ parse_pc = "idle"
    /\ region_result = None
    /\ extract_pc = "idle"
    /\ body_kwargs = None /\ regions_arg = None /\ dexa_data = None
    /\ body_scale_adjustments = PyNone /\ supplied = PyNone
    /\ params = None /\ synth_pc = "off"
    /\ request = None /\ sequence = None /\ files = EmptyDict /\ next_id = 0
    /\ response = None /\ morph_error = None /\ morph_pc = "off" /\ served = << >>
    /\ mesh_call = None /\ mesh_result = None /\ mesh_pc = "off"
    /\ pdf_paths = << >> /\ disk = EmptyDict /\ batch_i = 0 /\ processed = << >>
    /\ failed = EmptyDict /\ item_ids = << >> /\ batch_response = None /\ batch_pc = "off"
    /\ upload = None /\ photo = None /\ refined = None /\ refine_pc = "off"
    /\ avatar_result = None /\ avatar_pc = "off"

Next ==
    \/ ParsePdfBytes /\ UNCHANGED <<mesh_vars, synth_vars, morph_vars, batch_vars, photo_vars>>
    \/ ExtractRegionMetrics /\ UNCHANGED <<mesh_vars, synth_vars, morph_vars, batch_vars, photo_vars>>
Spec == Init /\ [][Next]_vars

SynthInit ==
    /\ body_kwargs \in BodyInputs
    /\ regions_arg \in RegionInputs
    /\ body_scale_adjustments \in AdjustmentInputs
    /\ supplied = body_scale_adjustments
    /\ dexa_data = None
    /\ params = None
    /\ synth_pc = "new"
    /\ request = None /\ sequence = None /\ files = EmptyDict /\ next_id = 0
    /\ response = None /\ morph_error = None /\ morph_pc = "off" /\ served = << >>
    /\ mesh_call = None /\ mesh_result = None /\ mesh_pc = "off"
    /\ pdf = None /\ scan = None /\ parse_error = None /\ parse_pc = "off"
    /\ region_result = None /\ extract_pc = "off"
    /\ pdf_paths = << >> /\ disk = EmptyDict /\ batch_i = 0 /\ processed = << >>
    /\ failed = EmptyDict /\ item_ids = << >> /\ batch_response = None /\ batch_pc = "off"
    /\ upload = None /\ photo = None /\ refined = None /\ refine_pc = "off"
    /\ avatar_result = None /\ avatar_pc = "off"

SpecSynth == SynthInit /\ [][SynthNext]_vars

MorphInit ==
    /\ request \in MorphRequests
    /\ sequence = None
    /\ files = EmptyDict
    /\ next_id = 0
    /\ response = None
    /\ morph_error = None
    /\ morph_pc = "idle"
    /\ served = << >>
    /\ mesh_call = None /\ mesh_result = None /\ mesh_pc = "off"
    /\ body_kwargs = None /\ regions_arg = None /\ dexa_data = None
    /\ body_scale_adjustments = PyNone /\ supplied = PyNone
    /\ params = None /\ synth_pc = "off"
    /\ pdf = None /\ scan = None /\ parse_error = None /\ parse_pc = "off"
    /\ region_result = None /\ extract_pc = "off"
    /\ pdf_paths = << >> /\ disk = EmptyDict /\ batch_i = 0 /\ processed = << >>
    /\ failed = EmptyDict /\ item_ids = << >> /\ batch_response = None /\ batch_pc = "off"
    /\ upload = None /\ photo = None /\ refined = None /\ refine_pc = "off"
    /\ avatar_result = None /\ avatar_pc = "off"

SpecMorph == MorphInit /\ [][MorphNext]_vars

BatchInit ==
    /\ pdf_paths \in UNION { [1..n -> BatchPaths] : n \in 0..MaxBatch }
    /\ disk \in [BatchPaths -> BatchDocs]
    /\ batch_i = 0
    /\ processed = << >>
    /\ failed = EmptyDict
    /\ item_ids = << >>
    /\ batch_response = None
    /\ batch_pc = "received"
    /\ files = EmptyDict /\ next_id = 0
    /\ request = None /\ sequence = None
    /\ response = None /\ morph_error = None /\ morph_pc = "off" /\ served = << >>
    /\ mesh_call = None /\ mesh_result = None /\ mesh_pc = "off"
    /\ body_kwargs = None /\ regions_arg = None /\ dexa_data = None
    /\ body_scale_adjustments = PyNone /\ supplied = PyNone
    /\ params = None /\ synth_pc = "off"
    /\ pdf = None /\ scan = None /\ parse_error = None /\ parse_pc = "off"
    /\ region_result = None /\ extract_pc = "off"
    /\ upload = None /\ photo = None /\ refined = None /\ refine_pc = "off"
    /\ avatar_result = None /\ avatar_pc = "off"

\* the handler runs on the request, the scheduled background task is run
\* after the response is sent and each iteration of its loop returns: weak
\* fairness of the handler step, of the loop step and of the task's return,
\* each stated by its guard and its effect on the position
SpecBatch ==
    /\ BatchInit
    /\ [][BatchNext]_vars
    /\ WF_batch_pc(batch_pc = "received" /\ batch_pc' = "scheduled")
    /\ WF_batch_i(batch_pc \in {"scheduled", "running"} /\ batch_i <= Len(pdf_paths)
                     /\ batch_i' = batch_i + 1)
    /\ WF_batch_pc(batch_pc \in {"scheduled", "running"} /\ batch_i > Len(pdf_paths)
                     /\ batch_pc' = "finished")

AvatarInit ==
    /\ upload \in UploadInputs
    /\ photo \in PhotoInputs
    /\ refined = None
    /\ refine_pc = "idle"
    /\ avatar_result = None
    /\ avatar_pc = "idle"
    /\ files = EmptyDict /\ next_id = 0
    /\ request = None /\ sequence = None
    /\ response = None /\ morph_error = None /\ morph_pc = "off" /\ served = << >>
    /\ mesh_call = None /\ mesh_result = None /\ mesh_pc = "off"
    /\ body_kwargs = None /\ regions_arg = None /\ dexa_data = None
    /\ body_scale_adjustments = PyNone /\ supplied = PyNone
    /\ params = None /\ synth_pc = "off"
    /\ pdf = None /\ scan = None /\ parse_error = None /\ parse_pc = "off"
    /\ region_result = None /\ extract_pc = "off"
    /\ pdf_paths = << >> /\ disk = EmptyDict /\ batch_i = 0 /\ processed = << >>
    /\ failed = EmptyDict /\ item_ids = << >> /\ batch_response = None /\ batch_pc = "off"

SpecAvatar == AvatarInit /\ [][AvatarNext]_vars

SerialInit ==
    /\ request \in SerialRequests
    /\ sequence = None
    /\ files = EmptyDict
    /\ next_id = 0
    /\ response = None
    /\ morph_error = None
    /\ morph_pc = "idle"
    /\ served = << >>
    /\ mesh_call = None /\ mesh_result = None /\ mesh_pc = "off"
    /\ body_kwargs = None /\ regions_arg = None /\ dexa_data = None
    /\ body_scale_adjustments = PyNone /\ supplied = PyNone
    /\ params = None /\ synth_pc = "off"
    /\ pdf = None /\ scan = None /\ parse_error = None /\ parse_pc = "off"
    /\ region_result = None /\ extract_pc = "off"
    /\ pdf_paths = << >> /\ disk = EmptyDict /\ batch_i = 0 /\ processed = << >>
    /\ failed = EmptyDict /\ item_ids = << >> /\ batch_response = None /\ batch_pc = "off"
    /\ upload = None /\ photo = None /\ refined = None /\ refine_pc = "off"
    /\ avatar_result = None /\ avatar_pc = "off"

SpecSerial == SerialInit /\ [][SerialNext]_vars

MeshInit ==
    /\ mesh_call \in [start_mesh : MeshInputs, end_mesh : MeshInputs, steps : 2..MaxSteps]
    /\ mesh_result = None
    /\ mesh_pc = "idle"
    /\ request \in {r \in SerialRequests : r.generate_meshes /\ r.steps = 2}
    /\ sequence = None
    /\ files = EmptyDict
    /\ next_id = 0
    /\ response = None
    /\ morph_error = None
    /\ morph_pc = "idle"
    /\ served = << >>
    /\ body_kwargs = None /\ regions_arg = None /\ dexa_data = None
    /\ body_scale_adjustments = PyNone /\ supplied = PyNone
    /\ params = None /\ synth_pc = "off"
    /\ pdf = None /\ scan = None /\ parse_error = None /\ parse_pc = "off"
    /\ region_result = None /\ extract_pc = "off"
    /\ pdf_paths = << >> /\ disk = EmptyDict /\ batch_i = 0 /\ processed = << >>
    /\ failed = EmptyDict /\ item_ids = << >> /\ batch_response = None /\ batch_pc = "off"
    /\ upload = None /\ photo = None /\ refined = None /\ refine_pc = "off"
    /\ avatar_result = None /\ avatar_pc = "off"

SpecMesh == MeshInit /\ [][MeshNext]_vars

(***************************************************************************)
(* Claims about interpolate_parameters and handle_morph_request.           *)
(***************************************************************************)
SameShape == Len(request.start_parameters.betas) = Len(request.end_parameters.betas)
Sequenced == morph_pc \in {"done", "failed"} /\ SameShape

\* C3 as stated: `steps` vectors, the first equal to start and the last equal
\* to end in shape coefficients and in scale-override mapping.
C3_EndpointsEqual ==
    Sequenced =>
        /\ Len(sequence) = request.steps
        /\ sequence[1].betas = request.start_parameters.betas
        /\ sequence[1].scales = request.start_parameters.scales
        /\ sequence[Len(sequence)].betas = request.end_parameters.betas
        /\ sequence[Len(sequence)].scales = request.end_parameters.scales

\* the mapping an endpoint shows in the sequence: its own entries, and 1.0
\* under every key that only the other endpoint has
C3_Padded(own, other) ==
    [k \in (DOMAIN own) \cup (DOMAIN other) |-> IF k \in DOMAIN own THEN own[k] ELSE One]

\* C3 amended: `steps` vectors; the first has start's coefficients and the
\* last has end's; the first (last) scale mapping has the keys of both
\* endpoints, start's (end's) value under each of its own keys and 1.0 under
\* a key only the other endpoint has, so it equals the endpoint's mapping
\* whenever the other endpoint has no key of its own.
C3_Endpoints ==
    Sequenced =>
        /\ Len(sequence) = request.steps
        /\ sequence[1].betas = request.start_parameters.betas
        /\ sequence[Len(sequence)].betas = request.end_parameters.betas
        /\ sequence[1].scales =
               C3_Padded(request.start_parameters.scales, request.end_parameters.scales)
        /\ sequence[Len(sequence)].scales =
               C3_Padded(request.end_parameters.scales, request.start_parameters.scales)
        /\ DOMAIN request.end_parameters.scales \subseteq DOMAIN request.start_parameters.scales
               => sequence[1].scales = request.start_parameters.scales
        /\ DOMAIN request.start_parameters.scales \subseteq DOMAIN request.end_parameters.scales
               => sequence[Len(sequence)].scales = request.end_parameters.scales

\* a sequence between different coefficient lists whose end has a key start lacks
C3_Witness ==
    /\ morph_pc = "done"
    /\ request.steps = 3
    /\ request.start_parameters.betas = <<Int2Rat(-2), <<1, 2>>>>
    /\ request.end_parameters.betas = <<<<1, 2>>, Int2Rat(-2)>>
    /\ request.start_parameters.scales = [hips |-> <<9, 10>>]
    /\ request.end_parameters.scales = [overall |-> <<6, 5>>]
    /\ sequence[1].scales = [hips |-> <<9, 10>>, overall |-> One]
    /\ sequence[3].betas = request.end_parameters.betas

\* start[i] * (1 - k/(steps - 1)) + end[i] * k/(steps - 1) over one denominator
C4_Expected(a, b, k, steps) ==
    Rat(a[1] * b[2] * (steps - 1 - k) + b[1] * a[2] * k, a[2] * b[2] * (steps - 1))

\* C4: coefficient i of element k (k = 0 .. steps - 1) of the sequence is
\* start[i] * (1 - k/(steps - 1)) + end[i] * (k/(steps - 1)); nothing is
\* eased, renormalized or clamped afterwards.
C4_LinearCoefficients ==
    Sequenced =>
        \A k \in 0..(request.steps - 1) :
            /\ Len(sequence[k + 1].betas) = Len(request.start_parameters.betas)
            /\ \A i \in 1..Len(request.start_parameters.betas) :
                   sequence[k + 1].betas[i] =
                       C4_Expected(request.start_parameters.betas[i],
                                   request.end_parameters.betas[i], k, request.steps)

\* an interior sample of a four-step sequence between -2 and 1/2: -2 * 2/3 + 1/2 * 1/3
C4_Witness ==
    /\ morph_pc = "done"
    /\ request.steps = 4
    /\ request.start_parameters.betas = <<Int2Rat(-2)>>
    /\ request.end_parameters.betas = <<<<1, 2>>>>
    /\ sequence[2].betas = <<<<-7, 6>>>>
    /\ sequence[3].betas = <<<<-1, 3>>>>

\* C5: with coefficient lists of different lengths the call fails with the
\* shape-mismatch ValueError; no sequence exists, handle_morph_request
\* writes no file and returns no paths.
C5_MismatchFailsFast ==
    (morph_pc # "idle" /\ ~SameShape) =>
        /\ morph_pc = "failed"
        /\ morph_error = <<"ValueError", "Parameter vectors must have identical shapes">>
        /\ sequence = None
        /\ files = EmptyDict
        /\ next_id = 0
        /\ response = None

\* a failed request whose start has one coefficient and whose end has two
C5_Witness ==
    /\ morph_pc = "failed"
    /\ Len(request.start_parameters.betas) = 1
    /\ Len(request.end_parameters.betas) = 2
    /\ ~request.generate_meshes
    /\ morph_error[1] = "ValueError"

(***************************************************************************)
(* Claims about parse_pdf_bytes and _extract_region_metrics.               *)
(***************************************************************************)
PagesText == JoinPages(pdf.pages)
Parsed == parse_pc \in {"done", "failed"} /\ pdf.decodable

\* C6: on non-blank text the 'no metrics' failure is raised if and only if
\* each of the seven whole-body fields is absent after extraction; with a
\* field matched, whatever its value (0 included), a record is constructed.
C6_NoMetricsIffAllAbsent ==
    (Parsed /\ ~Blank(PagesText)) =>
        /\ (parse_pc = "failed" /\ parse_error = NoMetricsError)
               <=> (\A f \in BodyFields : BodyKwargs(PagesText)[f] = None)
        /\ (\E f \in BodyFields : BodyKwargs(PagesText)[f] = Zero) => parse_pc = "done"

\* C7: blank recovered text fails with the 'no text' error, never with the
\* 'no metrics' error, and no scan record is produced.
C7_BlankTextFailsFirst ==
    (Parsed /\ Blank(PagesText)) =>
        /\ parse_pc = "failed"
        /\ parse_error = NoTextError
        /\ parse_error # NoMetricsError
        /\ scan = None

\* a document of two pages, one without text and one of white space only
C7_Witness ==
    /\ parse_pc = "failed"
    /\ pdf.decodable
    /\ pdf.pages = <<None, <<" ">>>>
    /\ parse_error = NoTextError

\* C8: bytes that are no decodable document make parse_pdf_bytes raise
\* DexaParserError and no other exception type.
C8_UndecodableRaisesParserError ==
    (parse_pc # "idle" /\ ~pdf.decodable) =>
        /\ parse_pc = "failed"
        /\ parse_error[1] = "DexaParserError"

\* the lines of the text that name a region, as <<key, numbers>>
C9_RegionLines(text) ==
    LET t == Tokenized(text)
    IN  [n \in {m \in 1..Len(t) : NamesRegion(t[m][1])} |->
            <<KeyString(t[n][1]), FindAll(JoinTokens(Tail(t[n])), 1)>>]
C9_Nth(values, n) == IF Len(values) >= n THEN values[n] ELSE None

\* C9: for every line whose first token names a region the numbers of the
\* remaining tokens are assigned by position, 1st fat percent, 2nd lean
\* mass, 3rd bone mass, absent positions unset, later numbers ignored (the
\* last line of a key decides its entry).
C9_PositionalAssignment ==
    (extract_pc = "done") =>
        /\ ~region_result.raised
        /\ LET lines == C9_RegionLines(PagesText)
           IN  \A n \in DOMAIN lines :
                  (lines[n][2] # << >>
                      /\ \A m \in DOMAIN lines : (m > n => lines[m][1] # lines[n][1]
                                                         \/ lines[m][2] = << >>))
                  => /\ lines[n][1] \in DOMAIN region_result.value
                     /\ region_result.value[lines[n][1]].fat_percent = C9_Nth(lines[n][2], 1)
                     /\ region_result.value[lines[n][1]].lean_mass_kg = C9_Nth(lines[n][2], 2)
                     /\ region_result.value[lines[n][1]].bone_mass_kg = C9_Nth(lines[n][2], 3)

(***************************************************************************)
(* Further claims about map_metrics_to_parameters.                         *)
(***************************************************************************)
\* C11: when the supplied mapping has the key "overall" and height and
\* weight are both present, the returned "overall" is the supplied value.
C11_SuppliedOverallKept ==
    (synth_pc = "mapped" /\ C10_BothPresent /\ "overall" \in DOMAIN supplied.items) =>
        /\ "overall" \in DOMAIN params.scales
        /\ params.scales["overall"] = supplied.items["overall"]

\* C13: the record of test_parameter_clamping (fat 100, lean 200, height
\* 300, weight 500) can be built, and mapping it raises nothing and gives
\* exactly 2.0 in slots 0, 1, 2 and 3.
C13_OutOfRangeAbsorbed ==
    (body_kwargs = ClampingBody /\ synth_pc # "new") =>
        /\ synth_pc \in {"built", "mapped"}
        /\ synth_pc = "mapped" =>
               \A i \in 1..4 : params.betas[i] = Int2Rat(2)

\* C16: the call changes neither the scan record nor the caller's mapping:
\* after it the mapping has exactly the keys and values it had before.
C16_ArgumentsUntouched ==
    synth_pc = "mapped" =>
        /\ body_scale_adjustments = supplied
        /\ dexa_data = ScanRecord(None, None, None, body_kwargs, regions_arg)
        /\ params = map_metrics_to_parameters(dexa_data, supplied)

(***************************************************************************)
(* Further claims about interpolate_parameters.                            *)
(***************************************************************************)
\* C12: interpolate_parameters(A, A, steps) returns `steps` elements, each
\* with A's shape coefficients, A's scale mapping and A's notes.
C12_SelfInterpolationIdentity ==
    (Sequenced /\ request.start_parameters = request.end_parameters) =>
        /\ Len(sequence) = request.steps
        /\ \A k \in 1..Len(sequence) :
               /\ sequence[k].betas = request.start_parameters.betas
               /\ sequence[k].scales = request.start_parameters.scales
               /\ sequence[k].notes = request.start_parameters.notes

\* s * (1 - t) + e * t at t = k / (steps - 1), over one denominator
C19_Expected(own, other, key, k, steps) ==
    LET s == IF key \in DOMAIN own THEN own[key] ELSE <<1, 1>>
        e == IF key \in DOMAIN other THEN other[key] ELSE <<1, 1>>
    IN  Rat(s[1] * e[2] * (steps - 1 - k) + e[1] * s[2] * k, s[2] * e[2] * (steps - 1))

\* C19: in every element the scale mapping has exactly the keys of start's
\* or end's mapping, and each key's value at t is s * (1 - t) + e * t, a key
\* missing on one side counting as 1.0.
C19_ScalesOverUnion ==
    Sequenced =>
        \A k \in 0..(request.steps - 1) :
            /\ DOMAIN sequence[k + 1].scales =
                   (DOMAIN request.start_parameters.scales)
                       \cup (DOMAIN request.end_parameters.scales)
            /\ \A key \in DOMAIN sequence[k + 1].scales :
                   sequence[k + 1].scales[key] =
                       C19_Expected(request.start_parameters.scales,
                                    request.end_parameters.scales, key, k, request.steps)

\* the middle of three steps between {hips: 0.9} and {overall: 1.2}
C19_Witness ==
    /\ morph_pc = "done"
    /\ request.steps = 3
    /\ request.start_parameters.scales = [hips |-> <<9, 10>>]
    /\ request.end_parameters.scales = [overall |-> <<6, 5>>]
    /\ sequence[2].scales = [hips |-> <<19, 20>>, overall |-> <<11, 10>>]

\* C20: along the sequence coefficient i is monotone (non-decreasing if
\* start[i] <= end[i], non-increasing otherwise) and lies between start[i]
\* and end[i]; so with both endpoints in [-2, 2] every coefficient of every
\* element lies in [-2, 2].
C20_MonotoneBetween ==
    Sequenced =>
        \A i \in 1..Len(request.start_parameters.betas) :
            LET a == request.start_parameters.betas[i]
                b == request.end_parameters.betas[i]
                lo == IF RLe(a, b) THEN a ELSE b
                hi == IF RLe(a, b) THEN b ELSE a
            IN  /\ \A k \in 1..Len(sequence) : Between(lo, sequence[k].betas[i], hi)
                /\ \A k \in 1..(Len(sequence) - 1) :
                       IF RLe(a, b)
                       THEN RLe(sequence[k].betas[i], sequence[k + 1].betas[i])
                       ELSE RLe(sequence[k + 1].betas[i], sequence[k].betas[i])
                /\ (Between(Int2Rat(-2), a, Int2Rat(2)) /\ Between(Int2Rat(-2), b, Int2Rat(2)))
                       => \A k \in 1..Len(sequence) :
                              Between(Int2Rat(-2), sequence[k].betas[i], Int2Rat(2))

\* four steps with one coefficient rising from -2 to 1/2 and one falling from 1/2 to -2
C20_Witness ==
    /\ morph_pc = "done"
    /\ request.steps = 4
    /\ request.start_parameters.betas = <<Int2Rat(-2), <<1, 2>>>>
    /\ request.end_parameters.betas = <<<<1, 2>>, Int2Rat(-2)>>
    /\ sequence[2].betas = <<<<-7, 6>>, <<-1, 3>>>>
    /\ sequence[3].betas = <<<<-1, 3>>, <<-7, 6>>>>

(***************************************************************************)
(* Further claims about extraction.                                        *)
(***************************************************************************)
\* C14: extraction validates no range and does not raise: on decodable
\* input parse_pdf_bytes fails only with the 'no text' or the 'no metrics'
\* error, and every matched number is returned as extracted.
C14_NoRangeValidation ==
    /\ extract_pc = "done" => ~region_result.raised
    /\ Parsed =>
           /\ parse_pc = "failed" => parse_error \in {NoTextError, NoMetricsError}
           /\ parse_pc = "done" => scan.body_metrics = BodyKwargs(PagesText)

\* C15: every key of the regions mapping is one of the five lowercase
\* region names, also when the first token has further words.
C15_KeysAreRegionNames ==
    (extract_pc = "done" /\ ~region_result.raised) =>
        DOMAIN region_result.value \subseteq REGION_NAMES

(***************************************************************************)
(* Claims about batch_process.                                             *)
(***************************************************************************)
C17_Contributed(i) == item_ids[i] # None
C17_OccursOnce(i) == \A j \in 1..Len(pdf_paths) : pdf_paths[j] = pdf_paths[i] => j = i

\* the items handled so far are a prefix of pdf_paths; an item that appended
\* no id has its path in failed; the ids appended are distinct and make up
\* processed
C17_Handled ==
    /\ Len(item_ids) = batch_i - 1
    /\ Len(item_ids) <= Len(pdf_paths)
    /\ \A i \in 1..Len(item_ids) :
           IF C17_Contributed(i)
           THEN Cardinality({j \in 1..Len(processed) : processed[j] = item_ids[i][1]}) = 1
           ELSE pdf_paths[i] \in DOMAIN failed
    /\ Len(processed) = Cardinality({i \in 1..Len(item_ids) : C17_Contributed(i)})
    /\ \A i \in 1..Len(item_ids) :
           C17_OccursOnce(i) => (pdf_paths[i] \in DOMAIN failed) # C17_Contributed(i)

\* C17 (as amended): the task handles the paths in order and terminates; an
\* item that fails is recorded in failed under its path and the items after
\* it are still handled; at the end every item has either put its path in
\* failed or appended exactly one id to processed, and a path that occurs
\* once in the request is a key of failed or has contributed, never both.
C17_FailuresIsolated ==
    /\ <>(batch_pc = "finished")
    /\ [](batch_pc \in {"scheduled", "running", "finished"} => C17_Handled)
    /\ [](batch_pc = "finished" => Len(item_ids) = Len(pdf_paths))

\* C17 (as stated): when the task has finished, every path of the request
\* is a key of failed or has contributed one id to processed, never both.
C17_EveryPathExclusive ==
    batch_pc = "finished" =>
        \A i \in 1..Len(pdf_paths) :
            (pdf_paths[i] \in DOMAIN failed) # C17_Contributed(i)

\* a missing file followed by a report that is processed
C17_Witness ==
    /\ batch_pc = "finished"
    /\ pdf_paths = <<"a.pdf", "b.pdf">>
    /\ ~disk["a.pdf"].exists
    /\ failed = [p \in {"a.pdf"} |-> "File not found"]
    /\ item_ids = <<None, <<2>>>>
    /\ processed = <<2>>

(***************************************************************************)
(* Claims about photo personalization.                                     *)
(***************************************************************************)
\* the cases in which the lookup has nothing to measure
C18_Degraded ==
    \/ ~photo.given
    \/ ~photo.pose_available
    \/ ~photo.readable
    \/ photo.fault
    \/ photo.landmarks.is_none

\* C18: refine_parameters_with_photo raises nothing, and returns the empty
\* mapping when no photo path is given, pose detection is unavailable, the
\* image cannot be loaded, no landmarks are found or an internal step
\* raises; generate_avatar then ends as it does with no overrides: with the
\* parameters map_metrics_to_parameters gives for None, or with the failure
\* of the export.
C18_PhotoLookupDegrades ==
    /\ refine_pc = "done" =>
           /\ ~refined.raised
           /\ C18_Degraded => refined.value = EmptyDict
    /\ (avatar_pc \in {"done", "failed"} /\ ~parse_pdf_bytes(upload).raised
            /\ photo.given /\ photo.stored /\ C18_Degraded) =>
           IF avatar_pc = "done"
           THEN avatar_result.value.parameters =
                    map_metrics_to_parameters(parse_pdf_bytes(upload).value, PyNone)
           ELSE avatar_result.exc =
                    HTTPException(500, "Internal error: No space left on device")

\* an unreadable photo: the lookup gave {} and the avatar was generated
C18_Witness ==
    /\ refine_pc = "done"
    /\ avatar_pc = "done"
    /\ photo.given /\ photo.stored /\ photo.pose_available /\ ~photo.readable
    /\ refined = Returned(EmptyDict)
    /\ "overall" \notin DOMAIN avatar_result.value.parameters.scales

(***************************************************************************)
(* Further claims about region extraction and assembly.                    *)
(***************************************************************************)
\* the lines of the text whose first token names a region: key and numbers
C21_Lines(text) ==
    LET t == Tokenized(text)
    IN  [n \in 1..Len(t) |->
            [names |-> NamesRegion(t[n][1]), key |-> KeyString(t[n][1]),
             values |-> FindAll(JoinTokens(Tail(t[n])), 1)]]
C21_At(values, n) == IF n <= Len(values) THEN values[n] ELSE None
\* the entry made from the numbers of one line alone
C21_EntryOf(values) ==
    [fat_mass_kg |-> None, fat_percent |-> C21_At(values, 1),
     lean_mass_kg |-> C21_At(values, 2), bone_mass_kg |-> C21_At(values, 3)]
\* line n is the last of the lines in `among` that have its key
C21_Last(lines, among, n) == \A m \in among : lines[m].key = lines[n].key => m <= n

C22_RegionsAloneSuffice ==
    (Parsed /\ ~Blank(PagesText)
        /\ (\A f \in BodyFields : BodyKwargs(PagesText)[f] = None)
        /\ ~_extract_region_metrics(PagesText).raised
        /\ DOMAIN _extract_region_metrics(PagesText).value # {})
    => /\ parse_error # NoMetricsError
       /\ parse_pc = "done"
       /\ scan.regions = _extract_region_metrics(PagesText).value

(***************************************************************************)
(* Further claims about handle_morph_request.                              *)
(***************************************************************************)
\* C23: the files named by the paths of an earlier morph response still
\* hold that request's own sequence: no later request writes to them.
C23_EarlierSequencesKept ==
    \A i \in 1..Len(served) :
        \A k \in 1..Len(served[i].paths) :
            /\ served[i].paths[k] \in DOMAIN files
            /\ files[served[i].paths[k]] = served[i].held[k]

\* the two endpoint meshes written by handle_morph_request differ in shape
C24_EndpointsMismatch ==
    /\ AvatarPath(1, "glb") \in DOMAIN files
    /\ AvatarPath(2, "glb") \in DOMAIN files
    /\ files[AvatarPath(1, "glb")].topology # files[AvatarPath(2, "glb")].topology

\* C24: interpolate_meshes raises, and builds no mesh, when the two meshes
\* differ in vertex-array shape or in face-array shape; with equal shapes it
\* returns exactly `steps` meshes that all carry the start mesh's faces; and
\* handle_morph_request with mesh generation enabled, on endpoint meshes of
\* different shapes, fails without returning paths or writing any file of a
\* morph sequence.
C24_TopologyMismatchFails ==
    /\ mesh_pc = "done" =>
           LET a == mesh_call.start_mesh
               b == mesh_call.end_mesh
           IN  IF a.topology[1] # b.topology[1] \/ a.topology[2] # b.topology[2]
               THEN /\ mesh_result.raised
                    /\ mesh_result.exc[1] = "ValueError"
                    /\ mesh_result.value = None
               ELSE /\ ~mesh_result.raised
                    /\ Len(mesh_result.value) = mesh_call.steps
                    /\ \A k \in 1..Len(mesh_result.value) :
                           mesh_result.value[k].topology = a.topology
    /\ (morph_pc \in {"done", "failed"} /\ C24_EndpointsMismatch) =>
           /\ morph_pc = "failed"
           /\ response = None
           /\ \A path \in DOMAIN files : path[1] # "output/morphs"

\* equal vertex shapes and different face shapes in the direct call, and a
\* request whose endpoint meshes came from different generators
C24_Witness ==
    /\ mesh_pc = "done"
    /\ mesh_call.start_mesh.topology[1] = mesh_call.end_mesh.topology[1]
    /\ mesh_call.start_mesh.topology[2] # mesh_call.end_mesh.topology[2]
    /\ mesh_result = Raised(<<"ValueError", "Meshes must have the same face structure">>)
    /\ morph_pc = "failed"
    /\ C24_EndpointsMismatch
    /\ morph_error = <<"ValueError", "Meshes must have the same vertex count for interpolation">>

(***************************************************************************)
(* Further claims about batch_process.                                     *)
(***************************************************************************)
\* C25: the response of batch_process is built before the task handles any
\* item: it has an empty processed list and an empty failed mapping for
\* every request, and what the task records later never enters it.
C25_ResponseBuiltFirst ==
    /\ batch_pc = "scheduled" => (item_ids = << >> /\ processed = << >> /\ failed = EmptyDict)
    /\ batch_pc \in {"scheduled", "running", "finished"} =>
           /\ batch_response.processed = << >>
           /\ batch_response.failed = EmptyDict

\* both items handled, one of each outcome, and the response still empty
C25_Witness ==
    /\ batch_pc = "finished"
    /\ Len(pdf_paths) = 2
    /\ Len(processed) = 1
    /\ DOMAIN failed # {}
    /\ batch_response.processed = << >>
    /\ batch_response.failed = EmptyDict

====
